---- MODULE Spec2Model ----
(***************************************************************************)
(* Model of scripts/migration.py: the one-shot migration of the legacy     *)
(* user and NFT exports into Mongo documents.  The main thread ingests the *)
(* user rows, sorts the NFT rows by int(position), fans create_nft out on  *)
(* a ThreadPoolExecutor, aggregates the collections, writes the error log  *)
(* and bulk-inserts the five document lists.                               *)
(***************************************************************************)
EXTENDS Integers, Sequences, FiniteSets, TLC

VARIABLES
    pc,                   \* position of the main thread in the script
    crash,                \* the uncaught exception that ended the run, or "none"
    clock,                \* last value returned by time.time() (0: not read yet)
    stalls,               \* how often time.time() returned the previous value again
    user_rows,            \* rows of glry-users.csv read so far
    user_documents,
    gallery_documents,
    nonce_documents,
    collection_documents,
    nft_documents,
    errored_documents,
    user_dict,            \* legacy id -> user document
    user_collection_dict, \* legacy id -> default collection document
    nft_rows,             \* rows of glry-nfts.csv in file order
    sorted_nfts,          \* the rows as sorted() returns them
    tasks,                \* per dispatched row: where its create_nft call stands
    requests_sent,        \* rows for which the GET to the asset endpoint was issued
    append_log,           \* history of line 123: who appended which id where
    errors_file,          \* migration-errors.json: written yet, and its content
    db,                   \* the five Mongo collections
    inserted,             \* names of the collections whose insert_many returned
    failed_insert         \* name of the collection whose insert_many raised

vars == <<pc, crash, clock, stalls, user_rows, user_documents, gallery_documents,
          nonce_documents, collection_documents, nft_documents, errored_documents,
          user_dict, user_collection_dict, nft_rows, sorted_nfts, tasks,
          requests_sent, append_log, errors_file, db, inserted, failed_insert>>

(***************************************************************************)
(* Bounds of the model.                                                    *)
(***************************************************************************)
MaxUsers == 2       \* rows of glry-users.csv
MaxRows == 2        \* rows of glry-nfts.csv
MaxStalls == 1      \* equal consecutive readings of time.time() in one run
MaxMalformed == 1   \* rows of glry-nfts.csv that are not well-formed

max_workers == 5

LegacyIds == {"u1", "u2"}

(***************************************************************************)
(* Python dicts keep their keys in first-insertion order; a dict is a      *)
(* sequence of [key, value] entries.                                       *)
(***************************************************************************)
DictHas(d, k) == \E i \in 1..Len(d) : d[i].key = k

DictGet(d, k) == d[CHOOSE i \in 1..Len(d) : d[i].key = k].value

DictPut(d, k, v) ==
    IF DictHas(d, k)
    THEN [i \in 1..Len(d) |-> IF d[i].key = k THEN [key |-> k, value |-> v] ELSE d[i]]
    ELSE Append(d, [key |-> k, value |-> v])

DictValues(d) == [i \in 1..Len(d) |-> d[i].value]

(***************************************************************************)
(* create_id: the md5 hex digest of str(time.time()).  The digest is a     *)
(* function of the reading alone, so two calls that read the same time     *)
(* return the same id.                                                     *)
(***************************************************************************)
hexdigest(s) == <<"md5", s>>

create_id(t) == hexdigest(t)

\* The readings time.time() may return for n consecutive calls after the
\* reading `last`: non-decreasing, each either later than the one before or
\* equal to it (at most `budget` times).  The first reading of a run has no
\* predecessor to repeat.
RECURSIVE Readings(_, _, _)
Readings(last, budget, n) ==
    IF n = 0 THEN {<<>>}
    ELSE LET later == {<<last + 1>> \o r : r \in Readings(last + 1, budget, n - 1)}
             again == IF budget > 0 /\ last > 0
                      THEN {<<last>> \o r : r \in Readings(last, budget - 1, n - 1)}
                      ELSE {}
         IN  later \cup again

RECURSIVE Repeats(_, _)
Repeats(last, r) ==
    IF r = <<>> THEN 0
    ELSE (IF r[1] = last THEN 1 ELSE 0) + Repeats(r[1], Tail(r))

(***************************************************************************)
(* The legacy NFT rows.  csv.DictReader(restkey="rest", restval="") gives  *)
(* a row with more cells than the header the extra key "rest", and fills   *)
(* the cells a short row lacks with "".  position is the cell's text, a    *)
(* string of decimal digits.                                               *)
(***************************************************************************)
Positions == {<<>>, <<2>>, <<1, 0>>}

NftRowSpace ==
    [user_id : LegacyIds, position : Positions, hidden : BOOLEAN,
     contract_address : {"", "0xC0"}, token_id : {"", "7"}, rest : BOOLEAN]

\* A row every stage accepts: no extra cells, no required cell empty.
WellFormed(row) ==
    /\ ~row.rest
    /\ row.position # <<>>
    /\ row.contract_address # ""
    /\ row.token_id # ""

SeqsUpTo(S, n) == UNION {[1..k -> S] : k \in 0..n}

NftFiles ==
    {f \in SeqsUpTo(NftRowSpace, MaxRows) :
        Cardinality({i \in DOMAIN f : ~WellFormed(f[i])}) <= MaxMalformed}

\* int(s) for a string of digits; int("") raises ValueError.
RECURSIVE int(_)
int(s) == IF Len(s) = 1 THEN s[1] ELSE 10 * int(SubSeq(s, 1, Len(s) - 1)) + s[Len(s)]

IntRaises(s) == s = <<>>

\* sorted(reader, key=lambda row: int(row["position"])): a stable sort.
RECURSIVE InsertSorted(_, _)
InsertSorted(s, row) ==
    IF s = <<>> THEN <<row>>
    ELSE IF int(row.position) < int(s[Len(s)].position)
         THEN Append(InsertSorted(SubSeq(s, 1, Len(s) - 1), row), s[Len(s)])
         ELSE Append(s, row)

RECURSIVE sorted(_)
sorted(rows) ==
    IF rows = <<>> THEN <<>>
    ELSE InsertSorted(sorted(SubSeq(rows, 1, Len(rows) - 1)), rows[Len(rows)])

(***************************************************************************)
(* The initial state: the module-level lists and dicts, all empty.         *)
(***************************************************************************)
CollectionNames == {"galleries", "collections", "nfts", "nonces", "users"}

Init ==
    /\ pc = "users"
    /\ crash = "none"
    /\ clock = 0
    /\ stalls = 0
    /\ user_rows = <<>>
    /\ user_documents = <<>>
    /\ gallery_documents = <<>>
    /\ nonce_documents = <<>>
    /\ collection_documents = <<>>
    /\ nft_documents = <<>>
    /\ errored_documents = <<>>
    /\ user_dict = <<>>
    /\ user_collection_dict = <<>>
    /\ nft_rows = <<>>
    /\ sorted_nfts = <<>>
    /\ tasks = <<>>
    /\ requests_sent = {}
    /\ append_log = <<>>
    /\ errors_file = [written |-> FALSE, docs |-> <<>>]
    /\ db = [c \in CollectionNames |-> <<>>]
    /\ inserted = {}
    /\ failed_insert = "none"

(***************************************************************************)
(* Stage 1: one iteration of the loop over glry-users.csv.                 *)
(***************************************************************************)
IngestUser ==
    /\ pc = "users"
    /\ Len(user_rows) < MaxUsers
    /\ \E id \in LegacyIds, r \in Readings(clock, MaxStalls - stalls, 4) :
         LET user_id == create_id(r[1])
             user_document == [_id |-> user_id]
             nonce_document == [_id |-> create_id(r[2]), user_id |-> user_id]
             default_col_id == create_id(r[3])
             default_collection_document ==
                 [_id |-> default_col_id, owner_user_id |-> user_id, nfts |-> <<>>]
             gallery_id == create_id(r[4])
             gallery_document ==
                 [_id |-> gallery_id, owner_user_id |-> user_id,
                  collections |-> <<default_col_id>>]
         IN  /\ user_rows' = Append(user_rows, [id |-> id])
             /\ stalls' = stalls + Repeats(clock, r)
             /\ clock' = r[4]
             /\ user_documents' = Append(user_documents, user_document)
             /\ gallery_documents' = Append(gallery_documents, gallery_document)
             /\ nonce_documents' = Append(nonce_documents, nonce_document)
             /\ user_dict' = DictPut(user_dict, id, user_document)
             /\ user_collection_dict' =
                    DictPut(user_collection_dict, id, default_collection_document)
    /\ UNCHANGED <<pc, crash, collection_documents, nft_documents, errored_documents,
                   nft_rows, sorted_nfts, tasks, requests_sent, append_log,
                   errors_file, db, inserted, failed_insert>>

\* The reader of glry-users.csv is exhausted.
UsersRead ==
    /\ pc = "users"
    /\ pc' = "nfts"
    /\ UNCHANGED <<crash, clock, stalls, user_rows, user_documents, gallery_documents,
                   nonce_documents, collection_documents, nft_documents,
                   errored_documents, user_dict, user_collection_dict, nft_rows,
                   sorted_nfts, tasks, requests_sent, append_log, errors_file, db,
                   inserted, failed_insert>>

(***************************************************************************)
(* Stage 2: read and sort glry-nfts.csv, then executor.map submits one     *)
(* create_nft call per row, in sorted order.  int() of an empty position   *)
(* raises ValueError outside any try block: the script ends there.         *)
(***************************************************************************)
SortNfts ==
    /\ pc = "nfts"
    /\ \E f \in NftFiles :
         /\ nft_rows' = f
         /\ IF \E i \in 1..Len(f) : IntRaises(f[i].position)
            THEN /\ pc' = "crashed"
                 /\ crash' = "ValueError"
                 /\ UNCHANGED <<sorted_nfts, tasks>>
            ELSE /\ pc' = "pool"
                 /\ sorted_nfts' = sorted(f)
                 /\ tasks' = [i \in 1..Len(f) |-> [st |-> "queued", resp |-> "none", nft_id |-> <<>>]]
                 /\ UNCHANGED crash
    /\ UNCHANGED <<clock, stalls, user_rows, user_documents, gallery_documents,
                   nonce_documents, collection_documents, nft_documents,
                   errored_documents, user_dict, user_collection_dict,
                   requests_sent, append_log, errors_file, db, inserted,
                   failed_insert>>

(***************************************************************************)
(* The thread pool.  The executor hands the queued calls to its threads in *)
(* submission order, at most max_workers at a time; a running call is      *)
(* identified by the index of its row in sorted_nfts.                      *)
(***************************************************************************)
Running == {i \in 1..Len(tasks) : tasks[i].st \notin {"queued", "done"}}

SetTask(i, st, resp, nft_id) ==
    tasks' = [tasks EXCEPT ![i] = [st |-> st, resp |-> resp, nft_id |-> nft_id]]

Errored(i, reason) ==
    errored_documents' = Append(errored_documents, [doc |-> i, error |-> reason])

\* A pool thread takes the next queued call.
W_Take(i) ==
    /\ pc = "pool"
    /\ tasks[i].st = "queued"
    /\ \A j \in 1..(i - 1) : tasks[j].st # "queued"
    /\ Cardinality(Running) < max_workers
    /\ SetTask(i, "validate", "none", <<>>)
    /\ UNCHANGED <<pc, crash, clock, stalls, user_rows, user_documents,
                   gallery_documents, nonce_documents, collection_documents,
                   nft_documents, errored_documents, user_dict, user_collection_dict,
                   nft_rows, sorted_nfts, requests_sent, append_log, errors_file, db,
                   inserted, failed_insert>>

\* W_Validate with the test of line 62 requiring both cells to be empty.
W_Validate_BothKeysEmpty(i) ==
    /\ pc = "pool"
    /\ tasks[i].st = "validate"
    /\ LET nft == sorted_nfts[i]
       IN  IF nft.rest
           THEN /\ Errored(i, "bad format NFT")
                /\ SetTask(i, "done", "none", <<>>)
                /\ UNCHANGED requests_sent
           ELSE IF nft.contract_address = "" /\ nft.token_id = ""
           THEN /\ Errored(i, "no contract address or token id")
                /\ SetTask(i, "done", "none", <<>>)
                /\ UNCHANGED requests_sent
           ELSE IF ~DictHas(user_dict, nft.user_id)
           THEN /\ Errored(i, "no supabase user for nft")
                /\ SetTask(i, "done", "none", <<>>)
                /\ UNCHANGED requests_sent
           ELSE /\ requests_sent' = requests_sent \cup {i}
                /\ SetTask(i, "fetch", "none", <<>>)
                /\ UNCHANGED errored_documents
    /\ UNCHANGED <<pc, crash, clock, stalls, user_rows, user_documents,
                   gallery_documents, nonce_documents, collection_documents,
                   nft_documents, user_dict, user_collection_dict, nft_rows,
                   sorted_nfts, append_log, errors_file, db, inserted, failed_insert>>

\* create_nft up to the GET: the checks of the row and the user lookup.
\* (The reader fills every header key, so the test of line 67 never fires.
\* With 5 threads and at most MaxRows rows the pool never makes a call wait.)
W_Validate(i) ==
    /\ pc = "pool"
    /\ tasks[i].st = "validate"
    /\ LET nft == sorted_nfts[i]
       IN  IF nft.rest
           THEN /\ Errored(i, "bad format NFT")
                /\ SetTask(i, "done", "none", <<>>)
                /\ UNCHANGED requests_sent
           ELSE IF nft.contract_address = "" \/ nft.token_id = ""
           THEN /\ Errored(i, "no contract address or token id")
                /\ SetTask(i, "done", "none", <<>>)
                /\ UNCHANGED requests_sent
           ELSE IF ~DictHas(user_dict, nft.user_id)
           THEN /\ Errored(i, "no supabase user for nft")
                /\ SetTask(i, "done", "none", <<>>)
                /\ UNCHANGED requests_sent
           ELSE /\ requests_sent' = requests_sent \cup {i}
                /\ SetTask(i, "fetch", "none", <<>>)
                /\ UNCHANGED errored_documents
    /\ UNCHANGED <<pc, crash, clock, stalls, user_rows, user_documents,
                   gallery_documents, nonce_documents, collection_documents,
                   nft_documents, user_dict, user_collection_dict, nft_rows,
                   sorted_nfts, append_log, errors_file, db, inserted, failed_insert>>

\* What requests.get and r.json() can come to within the timeout:
\*   "asset"    a JSON object with id and the image and animation urls,
\*   "id_only"  a JSON object with id that lacks one of the urls read later,
\*   "no_id"    a JSON object without id,
\*   "raise"    an exception (timeout, connection error, a body that is no JSON).
Responses == {"asset", "id_only", "no_id", "raise"}

\* W_Fetch with the return of line 92 missing: an asset without id is
\* recorded and built all the same.
W_Fetch_NoReturn(i) ==
    /\ pc = "pool"
    /\ tasks[i].st = "fetch"
    /\ \E resp \in Responses :
         CASE resp = "raise" ->
                /\ Errored(i, "exception")
                /\ SetTask(i, "done", resp, <<>>)
           [] resp = "no_id" ->
                /\ Errored(i, "no id in opensea asset")
                /\ SetTask(i, "build", resp, <<>>)
           [] OTHER ->
                /\ SetTask(i, "build", resp, <<>>)
                /\ UNCHANGED errored_documents
    /\ UNCHANGED <<pc, crash, clock, stalls, user_rows, user_documents,
                   gallery_documents, nonce_documents, collection_documents,
                   nft_documents, user_dict, user_collection_dict, nft_rows,
                   sorted_nfts, requests_sent, append_log, errors_file, db, inserted,
                   failed_insert>>

\* The GET returns or raises, and the asset is looked at.
W_Fetch(i) ==
    /\ pc = "pool"
    /\ tasks[i].st = "fetch"
    /\ \E resp \in Responses :
         CASE resp = "raise" ->
                /\ Errored(i, "exception")
                /\ SetTask(i, "done", resp, <<>>)
           [] resp = "no_id" ->
                /\ Errored(i, "no id in opensea asset")
                /\ SetTask(i, "done", resp, <<>>)
           [] OTHER ->
                /\ SetTask(i, "build", resp, <<>>)
                /\ UNCHANGED errored_documents
    /\ UNCHANGED <<pc, crash, clock, stalls, user_rows, user_documents,
                   gallery_documents, nonce_documents, collection_documents,
                   nft_documents, user_dict, user_collection_dict, nft_rows,
                   sorted_nfts, requests_sent, append_log, errors_file, db, inserted,
                   failed_insert>>

\* create_id and the nft_document literal; a url the asset lacks is a KeyError,
\* which the except clause records.
W_Build(i) ==
    /\ pc = "pool"
    /\ tasks[i].st = "build"
    /\ \E r \in Readings(clock, MaxStalls - stalls, 1) :
         /\ clock' = r[1]
         /\ stalls' = stalls + Repeats(clock, r)
         /\ IF tasks[i].resp = "id_only"
            THEN /\ Errored(i, "exception")
                 /\ SetTask(i, "done", tasks[i].resp, <<>>)
            ELSE /\ SetTask(i, "append_doc", tasks[i].resp, create_id(r[1]))
                 /\ UNCHANGED errored_documents
    /\ UNCHANGED <<pc, crash, user_rows, user_documents, gallery_documents,
                   nonce_documents, collection_documents, nft_documents, user_dict,
                   user_collection_dict, nft_rows, sorted_nfts, requests_sent,
                   append_log, errors_file, db, inserted, failed_insert>>

\* nft_documents.append(nft_document)
W_AppendDoc(i) ==
    /\ pc = "pool"
    /\ tasks[i].st = "append_doc"
    /\ LET user == DictGet(user_dict, sorted_nfts[i].user_id)
           nft_document ==
               [_id |-> tasks[i].nft_id, owner_user_id |-> user._id, row |-> i]
       IN  nft_documents' = Append(nft_documents, nft_document)
    /\ SetTask(i, "append_coll", tasks[i].resp, tasks[i].nft_id)
    /\ UNCHANGED <<pc, crash, clock, stalls, user_rows, user_documents,
                   gallery_documents, nonce_documents, collection_documents,
                   errored_documents, user_dict, user_collection_dict, nft_rows,
                   sorted_nfts, requests_sent, append_log, errors_file, db, inserted,
                   failed_insert>>

\* user_collection_dict[supabase_user_id]["nfts"].append(nft_id): no test of
\* the row's hidden cell precedes it.
W_AppendColl(i) ==
    /\ pc = "pool"
    /\ tasks[i].st = "append_coll"
    /\ LET supabase_user_id == sorted_nfts[i].user_id
           coll == DictGet(user_collection_dict, supabase_user_id)
       IN  /\ user_collection_dict' =
                  DictPut(user_collection_dict, supabase_user_id,
                          [coll EXCEPT !.nfts = Append(@, tasks[i].nft_id)])
           /\ append_log' = Append(append_log,
                  [key |-> supabase_user_id, row |-> i, nft_id |-> tasks[i].nft_id])
    /\ SetTask(i, "done", tasks[i].resp, tasks[i].nft_id)
    /\ UNCHANGED <<pc, crash, clock, stalls, user_rows, user_documents,
                   gallery_documents, nonce_documents, collection_documents,
                   nft_documents, errored_documents, user_dict, nft_rows, sorted_nfts,
                   requests_sent, errors_file, db, inserted, failed_insert>>

\* PoolJoin as shutdown(wait=False) would be: the main thread goes on while
\* calls are queued or running.
PoolJoin_NoWait ==
    /\ pc = "pool"
    /\ pc' = "aggregate"
    /\ UNCHANGED <<crash, clock, stalls, user_rows, user_documents, gallery_documents,
                   nonce_documents, collection_documents, nft_documents,
                   errored_documents, user_dict, user_collection_dict, nft_rows,
                   sorted_nfts, tasks, requests_sent, append_log, errors_file, db,
                   inserted, failed_insert>>

\* Leaving the with block: executor.shutdown(wait=True) returns once every
\* submitted call has returned.
PoolJoin ==
    /\ pc = "pool"
    /\ \A i \in 1..Len(tasks) : tasks[i].st = "done"
    /\ pc' = "aggregate"
    /\ UNCHANGED <<crash, clock, stalls, user_rows, user_documents, gallery_documents,
                   nonce_documents, collection_documents, nft_documents,
                   errored_documents, user_dict, user_collection_dict, nft_rows,
                   sorted_nfts, tasks, requests_sent, append_log, errors_file, db,
                   inserted, failed_insert>>

(***************************************************************************)
(* Stage 3: the collections of user_collection_dict, in the dict's order.  *)
(***************************************************************************)
Aggregate ==
    /\ pc = "aggregate"
    /\ collection_documents' = collection_documents \o DictValues(user_collection_dict)
    /\ pc' = "errors"
    /\ UNCHANGED <<crash, clock, stalls, user_rows, user_documents, gallery_documents,
                   nonce_documents, nft_documents, errored_documents, user_dict,
                   user_collection_dict, nft_rows, sorted_nfts, tasks, requests_sent,
                   append_log, errors_file, db, inserted, failed_insert>>

\* json.dump(errored_documents, f)
WriteErrors ==
    /\ pc = "errors"
    /\ errors_file' = [written |-> TRUE, docs |-> errored_documents]
    /\ pc' = "insert"
    /\ UNCHANGED <<crash, clock, stalls, user_rows, user_documents, gallery_documents,
                   nonce_documents, collection_documents, nft_documents,
                   errored_documents, user_dict, user_collection_dict, nft_rows,
                   sorted_nfts, tasks, requests_sent, append_log, db, inserted,
                   failed_insert>>

(***************************************************************************)
(* Stage 4: five insert_many calls, one after the other.  A call either    *)
(* stores its list or raises; nothing catches the exception and nothing    *)
(* undoes the calls that returned.                                         *)
(***************************************************************************)
\* The inserts with the users first.
InsertOrder_UsersFirst == <<"users", "galleries", "collections", "nfts", "nonces">>

InsertOrder == <<"galleries", "collections", "nfts", "nonces", "users">>

Documents(c) ==
    CASE c = "galleries" -> gallery_documents
      [] c = "collections" -> collection_documents
      [] c = "nfts" -> nft_documents
      [] c = "nonces" -> nonce_documents
      [] c = "users" -> user_documents

NextInsert == InsertOrder[Cardinality(inserted) + 1]

InsertReturns ==
    /\ pc = "insert"
    /\ db' = [db EXCEPT ![NextInsert] = @ \o Documents(NextInsert)]
    /\ inserted' = inserted \cup {NextInsert}
    /\ pc' = IF Cardinality(inserted) + 1 = Len(InsertOrder) THEN "done" ELSE "insert"
    /\ UNCHANGED <<crash, clock, stalls, user_rows, user_documents, gallery_documents,
                   nonce_documents, collection_documents, nft_documents,
                   errored_documents, user_dict, user_collection_dict, nft_rows,
                   sorted_nfts, tasks, requests_sent, append_log, errors_file,
                   failed_insert>>

InsertRaises ==
    /\ pc = "insert"
    /\ failed_insert' = NextInsert
    /\ crash' = "insert_many"
    /\ pc' = "crashed"
    /\ UNCHANGED <<clock, stalls, user_rows, user_documents, gallery_documents,
                   nonce_documents, collection_documents, nft_documents,
                   errored_documents, user_dict, user_collection_dict, nft_rows,
                   sorted_nfts, tasks, requests_sent, append_log, errors_file, db,
                   inserted>>

Next ==
    \/ IngestUser
    \/ UsersRead
    \/ SortNfts
    \/ \E i \in DOMAIN tasks : W_Take(i)
    \/ \E i \in DOMAIN tasks : W_Validate(i)
    \/ \E i \in DOMAIN tasks : W_Fetch(i)
    \/ \E i \in DOMAIN tasks : W_Build(i)
    \/ \E i \in DOMAIN tasks : W_AppendDoc(i)
    \/ \E i \in DOMAIN tasks : W_AppendColl(i)
    \/ PoolJoin
    \/ Aggregate
    \/ WriteErrors
    \/ InsertReturns
    \/ InsertRaises

Spec == Init /\ [][Next]_vars

(***************************************************************************)
(* Vocabulary of the properties.                                           *)
(***************************************************************************)
\* Every create_nft call has returned and the main thread has left the pool.
PoolOver == pc \in {"aggregate", "errors", "insert", "done"} \/ crash = "insert_many"

\* The main thread is past the aggregation loop.
Aggregated == pc \in {"errors", "insert", "done"} \/ crash = "insert_many"

NftDocsOf(i) == {k \in DOMAIN nft_documents : nft_documents[k].row = i}

ErrorsOf(i) == {k \in DOMAIN errored_documents : errored_documents[k].doc = i}

AppendsOf(i) == {k \in DOMAIN append_log : append_log[k].row = i}

EmptyKey(row) == row.contract_address = "" \/ row.token_id = ""

PositionOf(i) == int(sorted_nfts[i].position)

\* C1: once the pool is over, the rows whose ids were appended to one
\* user's default collection were appended in ascending int(position)
\* (stated for the runs whose clock readings all differ, where ids are unique).
C1_CollectionsInPositionOrder ==
    (PoolOver /\ stalls = 0) =>
        \A a, b \in DOMAIN append_log :
            (a < b /\ append_log[a].key = append_log[b].key)
                => PositionOf(append_log[a].row) <= PositionOf(append_log[b].row)

\* C2: no id appended to a Collection.nfts belongs to a row marked hidden
\* (stated for the runs whose clock readings all differ).
C2_HiddenNeverInCollection ==
    stalls = 0 => \A a \in DOMAIN append_log : ~sorted_nfts[append_log[a].row].hidden

\* C3: after aggregation the four lists handed to persistence have one
\* entry per user row, and every gallery's collections is the one-element
\* list of the id of a collection of the same owner in collection_documents
\* (stated for the runs whose clock readings all differ).
C3_OneOfEachPerUserRow ==
    (Aggregated /\ stalls = 0) =>
        /\ Len(user_documents) = Len(user_rows)
        /\ Len(nonce_documents) = Len(user_rows)
        /\ Len(gallery_documents) = Len(user_rows)
        /\ Len(collection_documents) = Len(user_rows)
        /\ \A g \in DOMAIN gallery_documents :
             /\ Len(gallery_documents[g].collections) = 1
             /\ \E c \in DOMAIN collection_documents :
                  /\ collection_documents[c]._id = gallery_documents[g].collections[1]
                  /\ collection_documents[c].owner_user_id =
                         gallery_documents[g].owner_user_id

\* The _id of every document the run holds, one entry per document.
AllIds ==
    [k \in DOMAIN user_documents |-> user_documents[k]._id]
    \o [k \in DOMAIN nonce_documents |-> nonce_documents[k]._id]
    \o [k \in DOMAIN user_collection_dict |-> user_collection_dict[k].value._id]
    \o [k \in DOMAIN gallery_documents |-> gallery_documents[k]._id]
    \o [k \in DOMAIN nft_documents |-> nft_documents[k]._id]

\* C4: no two documents share an _id.
C4_IdsPairwiseDistinct ==
    \A a, b \in DOMAIN AllIds : a # b => AllIds[a] # AllIds[b]

\* What C5 says of every row with an empty contract_address or token_id,
\* whatever reason the row's one ErrorRecord is to carry.
EmptyKeyRowRejected(i, reason) ==
    /\ NftDocsOf(i) = {}
    /\ i \notin requests_sent
    /\ AppendsOf(i) = {}
    /\ tasks[i].st \in {"queued", "validate", "done"}
    /\ tasks[i].st # "done" => ErrorsOf(i) = {}
    /\ tasks[i].st = "done" =>
          /\ Cardinality(ErrorsOf(i)) = 1
          /\ \A k \in ErrorsOf(i) : errored_documents[k].error = reason

\* C5 as stated: the ErrorRecord of such a row always names the missing
\* contract address / token id.
C5_EmptyKeyReasonAlwaysNamesKey ==
    \A i \in DOMAIN tasks :
        EmptyKey(sorted_nfts[i])
            => EmptyKeyRowRejected(i, "no contract address or token id")

\* C5 amended: a row with an empty contract_address or token_id yields no
\* NFT document, no GET, no append to a collection and exactly one
\* ErrorRecord; its reason names the missing contract address / token id
\* unless the row has extra cells, and then it is "bad format NFT".
C5_EmptyKeyRowRejected ==
    \A i \in DOMAIN tasks :
        EmptyKey(sorted_nfts[i])
            => EmptyKeyRowRejected(i,
                   IF sorted_nfts[i].rest THEN "bad format NFT"
                   ELSE "no contract address or token id")

\* A row with extra cells and an empty token_id, owned by nobody the user
\* table knows, has been through create_nft.
C5_Witness ==
    \E i \in DOMAIN tasks :
        /\ tasks[i].st = "done"
        /\ sorted_nfts[i].token_id = ""
        /\ sorted_nfts[i].rest
        /\ ~DictHas(user_dict, sorted_nfts[i].user_id)
        /\ ErrorsOf(i) # {}

\* C6: no failure of a single NFT row ends the run: the only uncaught
\* exception is a failed insert_many, raised after every row has had its
\* outcome, the collections were aggregated and the error log was written.
C6_RowFailureNeverAborts ==
    /\ crash \in {"none", "insert_many"}
    /\ pc = "crashed" =>
          /\ \A i \in DOMAIN nft_rows :
                i \in DOMAIN tasks /\ Cardinality(NftDocsOf(i)) + Cardinality(ErrorsOf(i)) = 1
          /\ errors_file.written

\* The names insert_many was called for before the call for c.
RECURSIVE Before(_, _)
Before(order, c) ==
    IF order = <<>> \/ order[1] = c THEN {} ELSE {order[1]} \cup Before(Tail(order), c)

\* C7 as stated, in the form an invariant can refute: a run whose NFTs
\* insert has failed is a run whose users insert has succeeded.
C7_UsersStoredWhenNftsFail ==
    failed_insert = "nfts" => "users" \in inserted

\* C7 amended: the five inserts are independent; a failed insert ends the
\* run, the inserts done before it stay in the store and the later ones are
\* never made.  The NFTs insert is the third and the users insert the last:
\* when the NFTs insert fails, galleries and collections are stored and
\* users (and nonces) are not.
C7_PartialPersistence ==
    /\ \A c \in CollectionNames :
          db[c] = IF c \in inserted THEN Documents(c) ELSE <<>>
    /\ failed_insert # "none" =>
          /\ pc = "crashed"
          /\ inserted = Before(InsertOrder, failed_insert)
    /\ failed_insert = "nfts" =>
          /\ inserted = {"galleries", "collections"}
          /\ "users" \notin inserted

\* The run has ended with galleries and collections stored and the NFTs
\* insert failed, with documents of each kind at hand.
C7_Witness ==
    /\ pc = "crashed"
    /\ failed_insert = "nfts"
    /\ db["galleries"] # <<>> /\ db["collections"] # <<>>
    /\ nft_documents # <<>> /\ user_documents # <<>>
    /\ db["nfts"] = <<>> /\ db["users"] = <<>>

\* C8: a create_nft call runs only once every user row read is in both
\* lookup tables; aggregation, the error log and the inserts come only
\* after every call has returned, so what is persisted holds the result of
\* every call.
C8_StagesInDependencyOrder ==
    /\ (\E i \in DOMAIN tasks : tasks[i].st # "queued") =>
          /\ pc \notin {"users", "nfts"}
          /\ \A u \in DOMAIN user_rows :
                /\ DictHas(user_dict, user_rows[u].id)
                /\ DictHas(user_collection_dict, user_rows[u].id)
    /\ (collection_documents # <<>> \/ errors_file.written
            \/ inserted # {} \/ failed_insert # "none") =>
          \A i \in DOMAIN tasks : tasks[i].st = "done"
    /\ pc \in {"errors", "insert", "done", "crashed"} /\ crash # "ValueError" =>
          collection_documents = DictValues(user_collection_dict)
    /\ errors_file.written =>
          /\ errors_file.docs = errored_documents
          /\ \A i \in DOMAIN tasks : NftDocsOf(i) # {} \/ ErrorsOf(i) # {}
    /\ "nfts" \in inserted => db["nfts"] = nft_documents
    /\ "collections" \in inserted => db["collections"] = DictValues(user_collection_dict)

\* The run is complete, after a pool that produced an NFT and an error.
C8_Witness ==
    /\ pc = "done"
    /\ db["nfts"] # <<>>
    /\ errors_file.docs # <<>>
    /\ \E k \in DOMAIN db["collections"] : db["collections"][k].nfts # <<>>

\* C9: a row never has both an NFT document and an ErrorRecord, nor two of
\* either; once its call has returned it has exactly one of them, and once
\* the pool is over the two lists together are as long as the row list.
C9_EveryRowAccountedOnce ==
    /\ \A i \in DOMAIN tasks :
          /\ Cardinality(NftDocsOf(i)) + Cardinality(ErrorsOf(i)) <= 1
          /\ tasks[i].st = "done" =>
                Cardinality(NftDocsOf(i)) + Cardinality(ErrorsOf(i)) = 1
    /\ PoolOver =>
          Len(nft_documents) + Len(errored_documents) = Len(sorted_nfts)

\* The pool is over and the second row's document was appended before the
\* first row's: the two calls overlapped.
C9_Witness ==
    /\ PoolOver
    /\ Len(sorted_nfts) = 2
    /\ Len(nft_documents) = 2 /\ nft_documents[1].row = 2
    /\ errored_documents = <<>>

\* C10: every id in a Collection.nfts is the _id of an NFT document of the
\* collection's owner, no id occurs twice across the collections, and a row
\* with an ErrorRecord has appended nothing.
C10_CollectionIdsResolveOnce ==
    /\ \A c \in DOMAIN user_collection_dict :
          \A n \in DOMAIN user_collection_dict[c].value.nfts :
             \E k \in DOMAIN nft_documents :
                /\ nft_documents[k]._id = user_collection_dict[c].value.nfts[n]
                /\ nft_documents[k].owner_user_id =
                       user_collection_dict[c].value.owner_user_id
    /\ \A c, d \in DOMAIN user_collection_dict :
          \A m \in DOMAIN user_collection_dict[c].value.nfts :
             \A n \in DOMAIN user_collection_dict[d].value.nfts :
                (c # d \/ m # n) =>
                    user_collection_dict[c].value.nfts[m]
                        # user_collection_dict[d].value.nfts[n]
    /\ \A a \in DOMAIN append_log : ErrorsOf(append_log[a].row) = {}

====
